---- MODULE Spec2Model ----
(***************************************************************************)
(* Verification model of mfclib: the Mixture value type (construction and  *)
(* balancing), the two-phase NNLS mixture resolution in its two            *)
(* implementations (supply_proportions_for_mixture and MixtureGenerator)   *)
(* and the linear setpoint <-> flow-rate calibration.                      *)
(*                                                                         *)
(* Numbers are exact rationals [n |-> numerator, d |-> denominator > 0]    *)
(* in lowest terms; the rounding of IEEE doubles is not modelled.          *)
(***************************************************************************)
EXTENDS Integers, Sequences, FiniteSets, TLC

VARIABLES
    raw,        \* Mixture(...): the composition mapping passed to the constructor
    mix,        \* Mixture(...): the constructed instance, or None
    mixErr,     \* Mixture(...): the exception raised by the constructor, or None
    bal,        \* Mixture.balanced: the instance it returned, or None
    compared,   \* mix == other: the other Mixture and the result, or None
    sources,    \* solver: the source mixtures (for MixtureGenerator: of config.lines)
    lines,      \* MixtureGenerator.lines: the selection, sequence of line indices
    target,     \* solver: the target mixture
    call,       \* solver: the entry point that ran, or None
    weights,    \* solver: the returned weight vector, or None
    warned,     \* solver: the set of warnings emitted
    raised,     \* solver: the exception raised, or None
    cal,        \* LinearCalibration: offset, slope, temperature, gas
    calIn,      \* calibration calls: the arguments of each call so far
    calOp,      \* calibration calls: the method that ran last, or None
    calOut,     \* calibration calls: the outcome of each call so far
    mfc,        \* MFC: the device, with its list of calibrations
    selector,   \* MFC.get_calibration: the selector of the call, or None
    selected,   \* MFC.get_calibration: the outcome of the call, or None
    cfIn,       \* calculate_CF: the mixture passed, or None
    cfOut,      \* calculate_CF: the outcome of the call, or None
    _CF_TABLE,  \* cf._CF_TABLE: the cached table, or None
    loads,      \* cf._load_default_CF_table: the number of times the file was read
    threads,    \* get_CF_table: per thread its position, loaded table and results
    doc,        \* Config(...): the document passed, lines and controllers
    config,     \* Config(...): the outcome of the validation, or None
    converted,  \* supply.convert_mixture: the outcome of the call, or None
    out,        \* Mixture reads and transformations: the last operation and its result, or None
    generated,  \* MixtureGenerator.generate: the MixtureResult returned or the exception raised, or None
    both,       \* the two solvers called on the same sources and target: their outcomes, or None
    cfg,        \* FileDataLogger.cfg: the DataLoggingConfig, or None
    now,        \* datetime.now(): the clock, in ticks
    last_rotation,\* FileDataLogger.last_rotation
    current_file,\* FileDataLogger.current_file: a path, or None
    files,      \* the data files on disk: path -> the lines written to it
    logged      \* the number of log_data calls so far

mixVars == <<raw, mix, mixErr, bal, compared>>
solveVars == <<sources, lines, target, call, weights, warned, raised>>
calVars == <<cal, calIn, calOp, calOut>>
mfcVars == <<mfc, selector, selected>>
cfVars == <<cfIn, cfOut>>
tableVars == <<_CF_TABLE, loads, threads>>
configVars == <<doc, config>>
legacyVars == <<converted>>
frameVars == <<out>>
generateVars == <<generated>>
agreeVars == <<both>>
loggerVars == <<cfg, now, last_rotation, current_file, files, logged>>
vars == <<raw, mix, mixErr, bal, compared, sources, lines, target, call, weights, warned,
          raised, cal, calIn, calOp, calOut, mfc, selector, selected, cfIn, cfOut,
          _CF_TABLE, loads, threads,
          doc, config,
          converted,
          out,
          generated,
          both,
          cfg, now, last_rotation, current_file, files, logged>>

\* Python's None: where the other values are objects, and where they are strings.
None == [none |-> TRUE]
NoneStr == "None"

\* The outcome of a call: the value it returned, or the exception it raised.
Ok(v) == [ok |-> TRUE, value |-> v]
Raise(e) == [ok |-> FALSE, exc |-> e]

-----------------------------------------------------------------------------
(* Exact rational arithmetic.                                              *)

Abs(i) == IF i < 0 THEN -i ELSE i

RECURSIVE GCD(_, _)
GCD(a, b) == IF b = 0 THEN a ELSE GCD(b, a % b)

Rat(num, den) ==
    LET g == GCD(Abs(num), Abs(den))
        s == IF den < 0 THEN -1 ELSE 1
    IN  [n |-> s * (num \div g), d |-> s * (den \div g)]

R0 == [n |-> 0, d |-> 1]
R1 == [n |-> 1, d |-> 1]
RAdd(a, b) == Rat(a.n * b.d + b.n * a.d, a.d * b.d)
RSub(a, b) == Rat(a.n * b.d - b.n * a.d, a.d * b.d)
RMul(a, b) ==
    LET g1 == GCD(Abs(a.n), b.d)
        g2 == GCD(Abs(b.n), a.d)
    IN  Rat((a.n \div g1) * (b.n \div g2), (a.d \div g2) * (b.d \div g1))
RDiv(a, b) == RMul(a, Rat(b.d, b.n))
RNeg(a) == [n |-> -a.n, d |-> a.d]
RLt(a, b) == a.n * b.d < b.n * a.d
RLe(a, b) == a.n * b.d <= b.n * a.d
RAbs(a) == [n |-> Abs(a.n), d |-> a.d]

\* A sequence given elementwise, with its elements evaluated once.
Vector(f) == f \o <<>>

RECURSIVE RSumSeq(_)
RSumSeq(s) == IF s = <<>> THEN R0 ELSE RAdd(Head(s), RSumSeq(Tail(s)))

-----------------------------------------------------------------------------
(* Quantities and the Mixture value type (models/mixture.py).              *)

\* A dimensionless quantity is [m |-> magnitude, u |-> unit]; the units are
\* those of register_units.
UnitScale(u) ==
    CASE u = "frac" -> Rat(1, 1)
      [] u = "pct"  -> Rat(1, 100)
      [] u = "ppm"  -> Rat(1, 1000000)
      [] u = "ml/L" -> Rat(1, 1000)
      [] u = "L/ml" -> Rat(1000, 1)

Q(num, den, u) == [m |-> Rat(num, den), u |-> u]

\* float(v) and v.m_as(''): the quantity converted to the base unit.
m_as(q) == RMul(q.m, UnitScale(q.u))

\* FractionQ(x) of a bare number: the dimensionless quantity.
FractionQ(r) == [m |-> r, u |-> "frac"]

\* The balance marker '*' stands in the place of an amount.
balanceSpeciesIndicator == [m |-> R0, u |-> "*"]

\* A composition is an insertion-ordered mapping: a sequence of entries
\* [k |-> species, v |-> amount] with pairwise distinct keys.
Keys(comp) == Vector([i \in 1..Len(comp) |-> comp[i].k])
KeySet(comp) == {comp[i].k : i \in 1..Len(comp)}
IndexOf(comp, key) == CHOOSE i \in 1..Len(comp) : comp[i].k = key
Lookup(comp, key) == comp[IndexOf(comp, key)].v
SetItem(comp, key, value) ==
    IF key \in KeySet(comp)
    THEN Vector([i \in 1..Len(comp) |->
            IF comp[i].k = key THEN [k |-> key, v |-> value] ELSE comp[i]])
    ELSE Append(comp, [k |-> key, v |-> value])

\* Mixture.get_balance_species: the species marked for balance, None, or
\* the ValueError for more than one.
get_balance_species_mut(comp) ==
    LET balance_species == {i \in 1..Len(comp) : comp[i].v = balanceSpeciesIndicator}
    IN  IF balance_species = {} THEN NoneStr
        ELSE comp[CHOOSE i \in balance_species : \A j \in balance_species : i <= j].k
get_balance_species(comp) ==
    LET balance_species == {i \in 1..Len(comp) : comp[i].v = balanceSpeciesIndicator}
    IN  IF Cardinality(balance_species) = 1
        THEN comp[CHOOSE i \in balance_species : TRUE].k
        ELSE IF balance_species = {} THEN NoneStr
        ELSE "ValueError"

\* Mixture(name=..., composition=...): check_composition keeps the marker and
\* the quantities, check_name rejects a composition that cannot be balanced.
\* The outcome is [ok |-> TRUE, value |-> instance] or [ok |-> FALSE, exc |-> ...].
NewMixture_mut(name, comp) ==
    IF get_balance_species(comp) \in {"ValueError", NoneStr}
    THEN [ok |-> FALSE, exc |-> "ValueError"]
    ELSE [ok |-> TRUE, value |-> [name |-> name, composition |-> comp]]
NewMixture(name, comp) ==
    IF get_balance_species(comp) = "ValueError"
    THEN [ok |-> FALSE, exc |-> "ValueError"]
    ELSE [ok |-> TRUE, value |-> [name |-> name, composition |-> comp]]

\* Mixture.balanced of a constructed instance.
RECURSIVE TotalExcept(_, _)
TotalExcept(comp, balance_with) ==
    IF comp = <<>> THEN R0
    ELSE LET rest == TotalExcept(Tail(comp), balance_with)
         IN  IF Head(comp).k # balance_with
             THEN RAdd(m_as(Head(comp).v), rest) ELSE rest

RECURSIVE MagnitudesExcept(_, _)
MagnitudesExcept(comp, balance_with) ==
    IF comp = <<>> THEN R0
    ELSE LET rest == MagnitudesExcept(Tail(comp), balance_with)
         IN  IF Head(comp).k # balance_with
             THEN RAdd(Head(comp).v.m, rest) ELSE rest

balanced_mut(m) ==
    LET balance_with == get_balance_species(m.composition)
    IN  IF balance_with = NoneStr THEN m
        ELSE [name |-> m.name,
              composition |-> SetItem(m.composition, balance_with,
                  FractionQ(RSub(R1, MagnitudesExcept(m.composition, balance_with))))]
balanced(m) ==
    LET balance_with == get_balance_species(m.composition)
    IN  IF balance_with = NoneStr THEN m
        ELSE [name |-> m.name,
              composition |-> SetItem(m.composition, balance_with,
                  FractionQ(RSub(R1, TotalExcept(m.composition, balance_with))))]

\* supply.convert_mixture(feed), the conversion of the earlier Mixture type:
\* the amounts without the balance species, rejected when they sum to more
\* than 1, and the balance species added as the last entry.
convert_mixture_mut(feed) ==
    LET balance_with == get_balance_species(feed)
        others == SelectSeq(feed, LAMBDA entry : entry.k # balance_with)
        total == TotalExcept(feed, balance_with)
    IN  IF balance_with = "ValueError" THEN Raise("ValueError")
        ELSE IF balance_with # NoneStr
        THEN Ok(Append(others, [k |-> balance_with, v |-> FractionQ(RSub(R1, total))]))
        ELSE Ok(others)
convert_mixture(feed) ==
    LET balance_with == get_balance_species(feed)
        others == SelectSeq(feed, LAMBDA entry : entry.k # balance_with)
        total == TotalExcept(feed, balance_with)
    IN  IF balance_with = "ValueError" THEN Raise("ValueError")
        ELSE IF RLt(R1, total) THEN Raise("ValueError")
        ELSE IF balance_with # NoneStr
        THEN Ok(Append(others, [k |-> balance_with, v |-> FractionQ(RSub(R1, total))]))
        ELSE Ok(others)

\* Mixture.__getitem__ and Mixture.get: the amount in the balanced view.
GetItem(m, key) == Lookup(balanced(m).composition, key)
Get(m, key, default) ==
    IF key \in KeySet(m.composition) THEN GetItem(m, key) ELSE FractionQ(default)

\* Mixture.species
species(m) == Keys(m.composition)

\* Mixture.fractions and Mixture.mole_fractions: the balanced composition,
\* as quantities and as numbers.
fractions(m) == balanced(m).composition
mole_fractions(m) ==
    Vector([i \in 1..Len(fractions(m)) |->
        [k |-> fractions(m)[i].k, v |-> m_as(fractions(m)[i].v)]])

\* mixture == other.  Mixture is a pydantic model with the fields composition
\* and name, and two instances of a model are equal when all their fields
\* are: the names, and the compositions as mappings (whatever the order of
\* their entries), '*' being equal to '*' only and two quantities when
\* their values are.
AmountEq(a, b) ==
    IF a = balanceSpeciesIndicator \/ b = balanceSpeciesIndicator THEN a = b
    ELSE m_as(a) = m_as(b)
MappingEq(c1, c2) ==
    /\ KeySet(c1) = KeySet(c2)
    /\ \A key \in KeySet(c1) : AmountEq(Lookup(c1, key), Lookup(c2, key))
__eq__(self, other) ==
    self.name = other.name /\ MappingEq(self.composition, other.composition)

\* The entries of a composition in the opposite order.
Reversed(comp) == Vector([i \in 1..Len(comp) |-> comp[Len(comp) + 1 - i]])

\* Sum of the fractions of a composition without a balance marker.
Total(comp) == TotalExcept(comp, NoneStr)

-----------------------------------------------------------------------------
(* Inputs of the Mixture constructor.                                      *)

MaxEntries == 3

Species == {"N2", "O2", "NO"}
Names == {NoneStr, "carrier"}
Amounts == {balanceSpeciesIndicator, Q(1, 2, "frac"), Q(25, 1, "pct"),
            Q(250000, 1, "ppm"), Q(1, 1, "frac")}

RECURSIVE SeqsUpTo(_, _)
SeqsUpTo(S, n) ==
    IF n = 0 THEN {<<>>}
    ELSE LET shorter == SeqsUpTo(S, n - 1)
         IN  shorter \cup {Append(s, x) : s \in shorter, x \in S}

DistinctKeys(comp) == \A i, j \in 1..Len(comp) : comp[i].k = comp[j].k => i = j

Compositions ==
    {comp \in SeqsUpTo([k : Species, v : Amounts], MaxEntries) : DistinctKeys(comp)}

-----------------------------------------------------------------------------
(* scipy.optimize.nnls: the Lawson-Hanson active-set method, in exact      *)
(* arithmetic.  A is a sequence of M rows of N entries, b has M entries.   *)

\* Range(f): the set of the values of a sequence.
Range(f) == {f[i] : i \in DOMAIN f}

Minor(G, j) ==
    Vector([r \in 1..(Len(G) - 1) |->
        Vector([c \in 1..(Len(G) - 1) |-> G[r + 1][IF c < j THEN c ELSE c + 1]])])

RECURSIVE Det(_)
Det(G) ==
    IF Len(G) = 0 THEN R1
    ELSE IF Len(G) = 1 THEN G[1][1]
    ELSE RSumSeq([j \in 1..Len(G) |->
            LET term == RMul(G[1][j], Det(Minor(G, j)))
            IN  IF j % 2 = 1 THEN term ELSE RNeg(term)])

\* The indices of P in increasing order.
RECURSIVE SortedSeq(_)
SortedSeq(P) ==
    IF P = {} THEN <<>>
    ELSE LET lo == CHOOSE i \in P : \A j \in P : i <= j
         IN  <<lo>> \o SortedSeq(P \ {lo})

\* The least-squares solution restricted to the passive set P (zero outside
\* P): solve(AtA[P, P], Atb[P]), by Cramer's rule.
SolvePassive(AtA, Atb, P) ==
    LET idx == SortedSeq(P)
        K == Len(idx)
        G == Vector([r \in 1..K |-> Vector([c \in 1..K |-> AtA[idx[r]][idx[c]]])])
        D == Det(G)
        Gk(k) == Vector([r \in 1..K |-> Vector([c \in 1..K |->
                    IF c = k THEN Atb[idx[r]] ELSE G[r][c]])])
        sub == Vector([k \in 1..K |-> RDiv(Det(Gk(k)), D)])
    IN  Vector([j \in 1..Len(Atb) |->
            IF j \in P THEN sub[CHOOSE k \in 1..K : idx[k] = j] ELSE R0])

\* The inner loop: while some passive s is negative, move x towards s as far
\* as feasibility allows, drop the variables that reached zero, re-solve.
RECURSIVE NnlsInner(_, _, _, _, _)
NnlsInner(AtA, Atb, x, P, s) ==
    LET inds == {i \in P : RLt(s[i], R0)}
    IN  IF inds = {} THEN [s |-> s, P |-> P]
        ELSE LET ratio(i) == RDiv(x[i], RSub(x[i], s[i]))
                 amin == CHOOSE i \in inds : \A j \in inds : RLe(ratio(i), ratio(j))
                 alpha == ratio(amin)
                 x2 == Vector([j \in 1..Len(x) |->
                          RAdd(RMul(x[j], RSub(R1, alpha)), RMul(alpha, s[j]))])
                 P2 == {i \in P : RLt(R0, x2[i])}
             IN  NnlsInner(AtA, Atb, x2, P2, SolvePassive(AtA, Atb, P2))

\* The outer loop: w is the negative gradient; the variable with the largest
\* positive w (the first one on a tie, as argmax) joins the passive set.
RECURSIVE NnlsOuter(_, _, _, _)
NnlsOuter(AtA, Atb, x, P) ==
    LET N == Len(Atb)
        w == Vector([j \in 1..N |->
                RSub(Atb[j], RSumSeq([i \in 1..N |-> RMul(AtA[j][i], x[i])]))])
        cand == {j \in (1..N) \ P : RLt(R0, w[j])}
    IN  IF cand = {} THEN x
        ELSE LET best == {j \in cand : \A i \in cand : RLe(w[i], w[j])}
                 k == CHOOSE j \in best : \A i \in best : j <= i
                 P1 == P \cup {k}
                 inner == NnlsInner(AtA, Atb, x, P1, SolvePassive(AtA, Atb, P1))
             IN  NnlsOuter(AtA, Atb, inner.s, inner.P)

nnls(A, b, N) ==
    LET M == Len(b)
        AtA == Vector([i \in 1..N |-> Vector([j \in 1..N |->
                  RSumSeq([m \in 1..M |-> RMul(A[m][i], A[m][j])])])])
        Atb == Vector([i \in 1..N |-> RSumSeq([m \in 1..M |-> RMul(A[m][i], b[m])])])
    IN  NnlsOuter(AtA, Atb, Vector([j \in 1..N |-> R0]), {})

-----------------------------------------------------------------------------
(* The two implementations of the mixture resolution.                      *)

\* sorted(...) of a set of species names.
SortedSpecies == <<"N2", "NO", "O2">>
sorted(S) == SelectSeq(SortedSpecies, LAMBDA name : name \in S)

\* "/".join(names), and Mixture.label: the name, or else the sorted species joined.
RECURSIVE Join(_)
Join(names) ==
    IF names = <<>> THEN ""
    ELSE IF Len(names) = 1 THEN names[1]
    ELSE names[1] \o "/" \o Join(Tail(names))
label(m) == IF m.name # NoneStr THEN m.name ELSE Join(sorted(KeySet(m.composition)))

\* The species of all sources.
SourceSpecies(srcs) == UNION {KeySet(srcs[j].composition) : j \in 1..Len(srcs)}

\* The matrix and the right-hand side both solvers build: A[i][j] is the
\* amount of species i in source j, b[i] its amount in the mixture, missing
\* species counting as 0.0, all in the base unit.
SourceMatrix(srcs, spec) ==
    Vector([i \in 1..Len(spec) |->
        Vector([j \in 1..Len(srcs) |-> m_as(Get(srcs[j], spec[i], R0))])])
TargetVector(mixture, spec) ==
    Vector([i \in 1..Len(spec) |-> m_as(Get(mixture, spec[i], R0))])

\* mixture._solve_system: A and b are nested lists, and nnls rejects the
\* empty list, which is not a two-dimensional array, in these words.
\* The outcome is [ok |-> TRUE, x |-> weights] or [ok |-> FALSE, exc |-> ...].
NotAMatrix == "Expected a two-dimensional array (matrix)"
_solve_system_mut(srcs, mixture, spec) ==
    [ok |-> TRUE,
     x |-> nnls(SourceMatrix(srcs, spec), TargetVector(mixture, spec), Len(srcs))]
_solve_system(srcs, mixture, spec) ==
    IF spec = <<>> THEN [ok |-> FALSE, exc |-> "ValueError", msg |-> NotAMatrix]
    ELSE [ok |-> TRUE,
          x |-> nnls(SourceMatrix(srcs, spec), TargetVector(mixture, spec), Len(srcs))]

\* x[np.isclose(x, 0)] = 0.0: |x| <= 1e-8 becomes 0.
IsCloseToZero(r) == Abs(r.n) <= r.d \div 100000000
ZeroSmall(x) == Vector([j \in 1..Len(x) |-> IF IsCloseToZero(x[j]) THEN R0 ELSE x[j]])

\* abs(total - 1.0) > tolerance with tolerance = 1.0e-4
tolerance == Rat(1, 10000)
Inconsistent_mut(x) == RLt(tolerance, RSub(RSumSeq(x), R1))
Inconsistent(x) == RLt(tolerance, RAbs(RSub(RSumSeq(x), R1)))

\* The amount of a species in the blend of the sources with weights x.
Blend(srcs, x, name) ==
    RSumSeq([j \in 1..Len(srcs) |->
        IF name \in KeySet(srcs[j].composition)
        THEN RMul(x[j], m_as(GetItem(srcs[j], name))) ELSE R0])

\* supply_proportions_for_mixture (mixture.py), lines 363-374: the
\* composition resulting from the phase-1 weights over the sorted source
\* species, with the balance species set (or added) as the wildcard.
Phase1Composition(srcs, x, spec, balance_with) ==
    SetItem(Vector([i \in 1..Len(spec) |->
                [k |-> spec[i], v |-> FractionQ(Blend(srcs, x, spec[i]))]]),
            balance_with, balanceSpeciesIndicator)

\* supply_proportions_for_mixture, lines 351-361: the first solve is made
\* only for a mixture with a balance species, and over the source species
\* that the mixture specifies (unknown: the balance species and the species
\* that are not in the mixture).
known_species(srcs, mixture) ==
    SelectSeq(sorted(SourceSpecies(srcs)), LAMBDA name :
        ~(name = get_balance_species(mixture.composition)
            \/ name \notin KeySet(mixture.composition)))
phase1_of_supply_proportions(srcs, mixture) ==
    IF get_balance_species(mixture.composition) # NoneStr
    THEN [executed |-> TRUE, species |-> known_species(srcs, mixture)]
    ELSE [executed |-> FALSE]

\* supply_proportions_for_mixture(sources, mixture).  The outcome is
\* [weights |-> x or None, warned |-> warnings emitted, raised |-> exception or None].
supply_proportions_for_mixture(srcs, mixture) ==
    LET spec == sorted(SourceSpecies(srcs))
        missing_species == KeySet(mixture.composition) \ Range(spec)
        warn1 == IF missing_species # {} THEN {"MissingSpecies"} ELSE {}
        balance_with == get_balance_species(mixture.composition)
        known == known_species(srcs, mixture)
        \* lines 379-397: zero the small weights, check their sum, return
        Return(x) ==
            [weights |-> x,
             warned |-> warn1 \cup (IF Inconsistent(x) THEN {"Inconsistent"} ELSE {}),
             raised |-> NoneStr, msg |-> NoneStr]
        \* line 377: the second solve, over all source species
        Phase2(phase2) ==
            IF ~phase2.ok
            THEN [weights |-> None, warned |-> warn1, raised |-> phase2.exc,
                  msg |-> phase2.msg]
            ELSE Return(ZeroSmall(phase2.x))
        \* lines 353-374: the first solve and the mixture it results in
        Phase1(phase1) ==
            IF ~phase1.ok
            THEN [weights |-> None, warned |-> warn1, raised |-> phase1.exc,
                  msg |-> phase1.msg]
            ELSE Phase2(_solve_system(srcs,
                    balanced(NewMixture(NoneStr,
                        Phase1Composition(srcs, phase1.x, spec, balance_with)).value),
                    spec))
    IN  IF balance_with # NoneStr
        THEN Phase1(_solve_system(srcs, mixture, known))
        ELSE Phase2(_solve_system(srcs, balanced(mixture), spec))

\* MixtureGenerator._solve_nnls_system: A and b are arrays of shape (M, N)
\* and (M,), so an empty species list gives the zero vector.
_solve_nnls_system_mut(srcs, mixture, spec) ==
    IF Len(srcs) = 0 THEN [ok |-> TRUE, x |-> <<>>]
    ELSE [ok |-> TRUE,
          x |-> nnls(SourceMatrix(srcs, spec), TargetVector(mixture, spec), Len(srcs))]
_solve_nnls_system(srcs, mixture, spec) ==
    IF Len(srcs) = 0 THEN [ok |-> FALSE, exc |-> "ValueError", msg |-> "No sources provided"]
    ELSE [ok |-> TRUE,
          x |-> nnls(SourceMatrix(srcs, spec), TargetVector(mixture, spec), Len(srcs))]

\* Mixture.compose(sources, weights, balance_with): the species in the order
\* in which the sources introduce them, the balance species set (or added)
\* as the wildcard.
RECURSIVE ComposeKeys(_, _)
ComposeKeys(srcs, acc) ==
    IF srcs = <<>> THEN acc
    ELSE LET ks == species(Head(srcs))
             new == SelectSeq(ks, LAMBDA name : name \notin Range(acc))
         IN  ComposeKeys(Tail(srcs), acc \o new)

compose(srcs, x, balance_with) ==
    LET ks == ComposeKeys(srcs, <<>>)
        result == Vector([i \in 1..Len(ks) |->
                     [k |-> ks[i], v |-> FractionQ(Blend(srcs, x, ks[i]))]])
    IN  NewMixture(NoneStr,
            IF balance_with # NoneStr
            THEN SetItem(result, balance_with, balanceSpeciesIndicator)
            ELSE result).value

\* MixtureGenerator._calculate_mixing_ratios, lines 129-152: the first solve
\* is reached with sources given and every species of the mixture supplied,
\* and is made over the species of the mixture without its balance species.
phase1_of_calculate_mixing_ratios(srcs, mixture) ==
    IF Len(srcs) = 0 \/ KeySet(mixture.composition) \ SourceSpecies(srcs) # {}
    THEN [executed |-> FALSE]
    ELSE [executed |-> TRUE,
          species |-> sorted(KeySet(mixture.composition)
                                \ {get_balance_species(mixture.composition)})]

\* MixtureGenerator._calculate_mixing_ratios(sources, mixture).
_calculate_mixing_ratios_mut(srcs, mixture) ==
    LET source_species == SourceSpecies(srcs)
        mixture_species == KeySet(mixture.composition)
        balance_with == get_balance_species(mixture.composition)
        spec1 == sorted(mixture_species \ {balance_with})
        x1 == _solve_nnls_system(srcs, mixture, spec1).x
        mixture2 == compose(srcs, x1, balance_with)
        x2 == _solve_nnls_system(srcs, balanced(mixture2), sorted(source_species)).x
    IN  IF Len(srcs) = 0
        THEN [weights |-> None, warned |-> {}, raised |-> "ValueError",
              msg |-> "No sources provided", names |-> {}]
        ELSE [weights |-> ZeroSmall(x2), warned |-> {}, raised |-> NoneStr,
              msg |-> NoneStr, names |-> {}]
_calculate_mixing_ratios(srcs, mixture) ==
    LET source_species == SourceSpecies(srcs)
        mixture_species == KeySet(mixture.composition)
        undefined == mixture_species \ source_species
        balance_with == get_balance_species(mixture.composition)
        spec1 == sorted(mixture_species \ {balance_with})
        x1 == _solve_nnls_system(srcs, mixture, spec1).x
        mixture2 == compose(srcs, x1, balance_with)
        x2 == _solve_nnls_system(srcs, balanced(mixture2), sorted(source_species)).x
    IN  IF Len(srcs) = 0
        THEN [weights |-> None, warned |-> {}, raised |-> "ValueError",
              msg |-> "No sources provided", names |-> {}]
        ELSE IF undefined # {}
        THEN [weights |-> None, warned |-> {}, raised |-> "ValueError",
              msg |-> "not present in any of the sources", names |-> undefined]
        ELSE [weights |-> ZeroSmall(x2), warned |-> {}, raised |-> NoneStr,
              msg |-> NoneStr, names |-> {}]

\* MixtureGenerator._get_lines: all lines of the configuration, or the
\* requested lines in the order of the request.  Lines are identified by
\* their position in config.lines (their names are pairwise distinct); a
\* selection is [mode |-> "all" | "default" | "list", names |-> the list].
_get_lines_mut(config_lines, selection) ==
    IF selection.mode = "all" \/ selection.mode = "default" THEN config_lines
    ELSE LET idx == SelectSeq(Vector([i \in 1..Len(config_lines) |-> i]),
                              LAMBDA i : i \in Range(selection.names))
         IN  Vector([i \in 1..Len(idx) |-> config_lines[idx[i]]])
_get_lines(config_lines, selection) ==
    IF selection.mode = "all" \/ selection.mode = "default" THEN config_lines
    ELSE Vector([i \in 1..Len(selection.names) |-> config_lines[selection.names[i]]])

\* MixtureGenerator.calculate_mixing_ratios(mixture)
calculate_mixing_ratios(config_lines, selection, mixture) ==
    _calculate_mixing_ratios(_get_lines(config_lines, selection), mixture)

\* np.isclose(1.0, total, 1e-3): the third positional argument is rtol, so
\* the test is |1.0 - total| <= atol + rtol * |total| with atol = 1e-8.
\* (Written as 1000 * |1.0 - total| - |total| <= 1e-5, the quotient compared
\* by integer division.)
isclose(total) ==
    LET excess == RSub(RMul(Rat(1000, 1), RAbs(RSub(R1, total))), RAbs(total))
    IN  excess.n <= excess.d \div 100000

\* MixtureGenerator.generate(mixture, flowrate, temperature) for lines that
\* have no device (their setpoint is None): the exception of
\* calculate_mixing_ratios, or the MixtureResult.
generate(config_lines, selection, mixture, flowrate) ==
    LET gases == _get_lines(config_lines, selection)
        Component(x, k) == [gas |-> gases[k], weight |-> x[k],
                            flowrate |-> RMul(flowrate, x[k]),
                            setpoint |-> None]
        Result(x) ==
            [raised |-> NoneStr,
             success |-> isclose(RSumSeq(x)),
             mixture |-> compose(gases, x, NoneStr),
             components |-> Vector([k \in 1..Len(gases) |-> Component(x, k)])]
        Outcome(ratios) ==
            IF ratios.raised # NoneStr
            THEN [raised |-> ratios.raised, msg |-> ratios.msg]
            ELSE Result(ratios.weights)
    IN  Outcome(calculate_mixing_ratios(config_lines, selection, mixture))

-----------------------------------------------------------------------------
(* Inputs of the mixture resolution.                                       *)

MaxSources == 2

Comp1(k1, v1) == <<[k |-> k1, v |-> v1]>>
Comp2(k1, v1, k2, v2) == <<[k |-> k1, v |-> v1], [k |-> k2, v |-> v2]>>
Comp3(k1, v1, k2, v2, k3, v3) ==
    <<[k |-> k1, v |-> v1], [k |-> k2, v |-> v2], [k |-> k3, v |-> v3]>>
Gas(comp) == NewMixture(NoneStr, comp).value

SourceGases ==
    { Gas(Comp1("N2", balanceSpeciesIndicator)),
      Gas(Comp1("O2", Q(1, 1, "frac"))),
      Gas(Comp2("NO", Q(50, 1, "pct"), "O2", balanceSpeciesIndicator)),
      Gas(Comp2("NO", Q(250000, 1, "ppm"), "N2", balanceSpeciesIndicator)),
      Gas(Comp2("N2", balanceSpeciesIndicator, "NO", Q(1, 2, "frac"))) }

Targets ==
    { Gas(Comp2("NO", Q(25, 1, "pct"), "N2", balanceSpeciesIndicator)),
      Gas(Comp2("N2", Q(1, 2, "frac"), "O2", Q(50, 1, "pct"))),
      Gas(Comp3("NO", Q(1, 4, "frac"), "O2", Q(1, 4, "frac"), "N2", balanceSpeciesIndicator)),
      Gas(Comp1("N2", balanceSpeciesIndicator)),
      Gas(Comp1("N2", Q(1, 1, "frac"))),
      Gas(Comp2("NO", Q(1, 2, "frac"), "N2", Q(1, 1, "frac"))) }

\* Targets of generate: those above, and one whose specified amount exceeds
\* 1 by 500 ppm.  Flow rates in L/min.
GenerateTargets ==
    Targets \cup { Gas(Comp1("N2", Q(2001, 2000, "frac"))) }
FlowRates == {Rat(2, 1), Rat(1, 2)}

\* The line selections a MixtureGenerator accepts (validate_lines): 'all',
\* or a list of names of lines of the configuration, here without repeats.
Distinct(seq) == \A i, j \in 1..Len(seq) : seq[i] = seq[j] => i = j
Selections(config_lines) ==
    {[mode |-> "all", names |-> <<>>]}
        \cup {[mode |-> "list", names |-> sel] :
                sel \in {q \in SeqsUpTo(1..Len(config_lines), MaxSources) : Distinct(q)}}

-----------------------------------------------------------------------------
(* The data logger: FileDataLogger and its DataLoggingConfig.              *)
(* Time is counted in ticks; a format string applied to a time yields the  *)
(* time truncated to the resolution of its finest field.                   *)

\* DataLoggingConfig.check_time_intervals
check_time_intervals(self) ==
    IF self.write_interval >= self.rotate_every THEN Raise("ValueError") ELSE Ok(self)

\* cfg.directory.format(now) / cfg.filename.format(now)
format(resolution, time) == time \div resolution
Path(self, time) ==
    [directory |-> format(self.directory, time), filename |-> format(self.filename, time)]

\* FileDataLogger._write(lines): open(current_file, mode='a') and append.
_write(disk, file, new_lines) ==
    IF file \in DOMAIN disk
    THEN [disk EXCEPT ![file] = @ \o new_lines]
    ELSE (file :> new_lines) @@ disk

\* FileDataLogger._ensure_file at time t: the rotation stamp, the current
\* file and the disk after it.
_ensure_file(self, t, stamp, file, disk) ==
    LET rotate == t - stamp > self.rotate_every
        stamp1 == IF rotate THEN t ELSE stamp
        file1 == IF rotate THEN None ELSE file
    IN  IF file1 = None
        THEN [last_rotation |-> stamp1, current_file |-> Path(self, t),
              files |-> _write(disk, Path(self, t), <<"header">>)]
        ELSE [last_rotation |-> stamp1, current_file |-> file1, files |-> disk]

\* FileDataLogger.log_data(data) at time t, data having the given number of rows.
log_data(self, t, stamp, file, disk, rows) ==
    LET ensured == _ensure_file(self, t, stamp, file, disk)
    IN  [ensured EXCEPT !.files =
            _write(@, ensured.current_file, [i \in 1..rows |-> "data"])]

(* Inputs of the data logger: a tick is half the resolution of the         *)
(* default file name (seconds); the directory changes once a day.          *)
MaxTime == 5
MaxRows == 1
MaxLogCalls == 3
LoggingConfigs ==
    {c \in [directory : {100}, filename : {1, 2}, rotate_every : {2, 3},
            write_interval : {1, 2, 3}] : check_time_intervals(c).ok}

-----------------------------------------------------------------------------
(* The calibration: setpoint <-> flow rate.                                *)

\* Quantity.check(dimension): the dimension of a quantity follows from its unit.
Dimension(u) ==
    CASE u \in {"frac", "pct", "ppm", "ml/L", "L/ml"} -> "[]"
      [] u \in {"ml/min", "L/min"} -> "[volume]/[time]"
      [] u \in {"K", "degC"} -> "[temperature]"
      [] OTHER -> "[length]/[time]"

\* Quantity.to('K') and the conversion between the units of a flow rate.
to_K_mut(t) == t.m
to_K(t) == IF t.u = "degC" THEN RAdd(t.m, Rat(27315, 100)) ELSE t.m
FlowScale(u) == IF u = "L/min" THEN Rat(1000, 1) ELSE R1
to_flow_unit(q, u) == RDiv(RMul(q.m, FlowScale(q.u)), FlowScale(u))

\* The magnitude pint compares: the quantity in the base unit of its dimension.
Base(q) ==
    CASE Dimension(q.u) = "[]" -> m_as(q)
      [] Dimension(q.u) = "[volume]/[time]" -> to_flow_unit(q, "ml/min")
      [] Dimension(q.u) = "[temperature]" -> to_K(q)
      [] OTHER -> q.m

\* tools.validate_dimension and tools.validate_range
validate_dimension(value, dimension) ==
    IF Dimension(value.u) # dimension THEN Raise("ValueError") ELSE Ok(value)
validate_range_mut(value, min_value, max_value) == Ok(value)
validate_range(value, min_value, max_value) ==
    IF min_value # None /\ max_value # None
    THEN IF ~(RLe(min_value, Base(value)) /\ RLe(Base(value), max_value))
         THEN Raise("ValueError") ELSE Ok(value)
    ELSE IF min_value # None
    THEN IF RLt(Base(value), min_value) THEN Raise("ValueError") ELSE Ok(value)
    ELSE IF max_value # None
    THEN IF RLt(max_value, Base(value)) THEN Raise("ValueError") ELSE Ok(value)
    ELSE Ok(value)

\* The rows of the table of conversion factors (N2 is the reference gas),
\* and _table.loc[symbol]: the CF of the row, or KeyError where the table
\* has no row for the symbol.
CFSymbols == {"N2", "O2", "CO2"}
CFTable(symbol) ==
    CASE symbol = "N2" -> R1
      [] symbol = "O2" -> Rat(988, 1000)
      [] symbol = "CO2" -> Rat(74, 100)
loc_mut(symbol) == IF symbol \in CFSymbols THEN Ok(CFTable(symbol)) ELSE Ok(R1)
loc(symbol) == IF symbol \in CFSymbols THEN Ok(CFTable(symbol)) ELSE Raise("KeyError")

\* calculate_CF(mixture): total / sum(fraction / CF[symbol]) over the
\* balanced view of the mixture.  The lookup of a symbol without a row
\* raises KeyError, and the division by a sum of zero ZeroDivisionError.
RECURSIVE SumOverCF(_)
SumOverCF(comp) ==
    IF comp = <<>> THEN R0
    ELSE RAdd(RDiv(m_as(Head(comp).v), loc(Head(comp).k).value), SumOverCF(Tail(comp)))
calculate_CF_mut(mixture) ==
    LET comp == balanced(mixture).composition
        Quotient(total, denom) ==
            IF total = R0 THEN Raise("ZeroDivisionError") ELSE Ok(RDiv(denom, total))
    IN  IF \E i \in 1..Len(comp) : ~loc(comp[i].k).ok THEN Raise("KeyError")
        ELSE Quotient(Total(comp), SumOverCF(comp))
calculate_CF(mixture) ==
    LET comp == balanced(mixture).composition
        Quotient(total, denom) ==
            IF denom = R0 THEN Raise("ZeroDivisionError") ELSE Ok(RDiv(total, denom))
    IN  IF \E i \in 1..Len(comp) : ~loc(comp[i].k).ok THEN Raise("KeyError")
        ELSE Quotient(Total(comp), SumOverCF(comp))

\* Mixture.cf of a mixture whose species the table lists.
cf(mixture) == calculate_CF(mixture).value

\* The gas and the temperature a calibration call works with: the
\* arguments, or the calibration's own where the argument is None.
GasOrDefault(self, gas) == IF gas = None THEN self.gas ELSE gas
TemperatureOrDefault_mut(self, temperature) ==
    IF temperature = None THEN Ok(self.temperature)
    ELSE validate_dimension(temperature, "[temperature]")
TemperatureOrDefault(self, temperature) ==
    IF temperature = None THEN Ok(self.temperature)
    ELSE LET t == validate_dimension(temperature, "[temperature]")
         IN  IF ~t.ok THEN t ELSE validate_range(temperature, R0, None)

\* LinearCalibration._impl_setpoint_to_flowrate: offset + setpoint * slope,
\* a flow rate in the unit of the offset.
_impl_setpoint_to_flowrate(self, setpoint) ==
    [m |-> RAdd(self.offset.m,
                RMul(m_as(setpoint), to_flow_unit(self.slope, self.offset.u))),
     u |-> self.offset.u]

\* LinearCalibration._impl_flowrate_to_setpoint: (flowrate - offset) / slope,
\* a dimensionless quantity in the ratio of the units of flowrate and slope.
RatioUnit(fu, su) ==
    IF fu = su THEN "frac" ELSE IF fu = "ml/min" THEN "ml/L" ELSE "L/ml"
_impl_flowrate_to_setpoint_mut(self, flowrate) ==
    IF self.slope.m = R0 THEN Raise("ZeroDivisionError")
    ELSE Ok([m |-> RDiv(flowrate.m, self.slope.m),
             u |-> RatioUnit(flowrate.u, self.slope.u)])
_impl_flowrate_to_setpoint(self, flowrate) ==
    IF self.slope.m = R0 THEN Raise("ZeroDivisionError")
    ELSE Ok([m |-> RDiv(RSub(flowrate.m, to_flow_unit(self.offset, flowrate.u)),
                        self.slope.m),
             u |-> RatioUnit(flowrate.u, self.slope.u)])

\* CalibrationBase.setpoint_to_flowrate(setpoint, gas=gas, temperature=temperature)
setpoint_to_flowrate_mut(self, setpoint, gas, temperature) ==
    LET dim == validate_dimension(setpoint, "[]")
        t == TemperatureOrDefault(self, temperature)
        flowrate == _impl_setpoint_to_flowrate(self, setpoint)
        gasCF == calculate_CF(GasOrDefault(self, gas))
        selfCF == calculate_CF(self.gas)
        byGas == RDiv(gasCF.value, selfCF.value)
    IN  IF ~dim.ok THEN dim
        ELSE IF ~t.ok THEN t
        ELSE IF ~gasCF.ok THEN gasCF
        ELSE IF ~selfCF.ok THEN selfCF
        ELSE IF to_K(self.temperature) = R0 THEN Raise("ZeroDivisionError")
        ELSE Ok([m |-> RMul(RMul(flowrate.m, byGas),
                            RDiv(to_K(t.value), to_K(self.temperature))),
                 u |-> flowrate.u])
setpoint_to_flowrate(self, setpoint, gas, temperature) ==
    LET dim == validate_dimension(setpoint, "[]")
        rng == validate_range(setpoint, R0, R1)
        t == TemperatureOrDefault(self, temperature)
        flowrate == _impl_setpoint_to_flowrate(self, setpoint)
        gasCF == calculate_CF(GasOrDefault(self, gas))
        selfCF == calculate_CF(self.gas)
        byGas == RDiv(gasCF.value, selfCF.value)
    IN  IF ~dim.ok THEN dim
        ELSE IF ~rng.ok THEN rng
        ELSE IF ~t.ok THEN t
        ELSE IF ~gasCF.ok THEN gasCF
        ELSE IF ~selfCF.ok THEN selfCF
        ELSE IF to_K(self.temperature) = R0 THEN Raise("ZeroDivisionError")
        ELSE Ok([m |-> RMul(RMul(flowrate.m, byGas),
                            RDiv(to_K(t.value), to_K(self.temperature))),
                 u |-> flowrate.u])

\* CalibrationBase.flowrate_to_setpoint(flowrate, gas=gas, temperature=temperature)
flowrate_to_setpoint(self, flowrate, gas, temperature) ==
    LET dim == validate_dimension(flowrate, "[volume]/[time]")
        t == TemperatureOrDefault(self, temperature)
        selfCF == calculate_CF(self.gas)
        gasCF == calculate_CF(GasOrDefault(self, gas))
        byGas == RDiv(selfCF.value, gasCF.value)
    IN  IF ~dim.ok THEN dim
        ELSE IF ~t.ok THEN t
        ELSE IF ~selfCF.ok THEN selfCF
        ELSE IF ~gasCF.ok THEN gasCF
        ELSE IF to_K(t.value) = R0 THEN Raise("ZeroDivisionError")
        ELSE LET corrected ==
                   [m |-> RMul(RMul(flowrate.m, byGas),
                               RDiv(to_K(self.temperature), to_K(t.value))),
                    u |-> flowrate.u]
                 setpoint == _impl_flowrate_to_setpoint(self, corrected)
             IN  IF ~setpoint.ok THEN setpoint
                 ELSE validate_range(setpoint.value, R0, R1)

(* Inputs of the calibration.                                              *)

CalGases == { Gas(Comp1("N2", balanceSpeciesIndicator)),
              Gas(Comp1("CO2", balanceSpeciesIndicator)) }
Offsets == { Q(10, 1, "ml/min"), Q(-20, 1, "ml/min"), Q(0, 1, "L/min") }
Slopes == { Q(3, 2, "L/min"), Q(500, 1, "ml/min"), Q(0, 1, "ml/min") }
CalTemperatures == { Q(273, 1, "K"), Q(20, 1, "degC") }
Calibrations ==
    [offset : Offsets, slope : Slopes, temperature : CalTemperatures, gas : CalGases]

Setpoints == { Q(0, 1, "frac"), Q(1, 2, "frac"), Q(1, 1, "frac"), Q(3, 2, "frac"),
               Q(50, 1, "pct"), Q(110, 1, "pct"), Q(-10, 1, "pct"), Q(1, 2, "ml/min") }
Flowrates == { Q(10, 1, "ml/min"), Q(760, 1, "ml/min"), Q(-10, 1, "ml/min"),
               Q(3, 2, "L/min"), Q(1, 1, "m/s") }
GasArguments ==
    { None, Gas(Comp1("CO2", balanceSpeciesIndicator)),
      Gas(Comp2("CO2", Q(50, 1, "pct"), "N2", balanceSpeciesIndicator)) }
TemperatureArguments ==
    { None, Q(273, 1, "K"), Q(0, 1, "K"), Q(-1, 1, "K"), Q(20, 1, "degC"),
      Q(100, 1, "frac") }

(* Inputs of calculate_CF: Mixtures of species with a row in the table    *)
(* and of one species ("X") without.                                      *)

CFSpecies == CFSymbols \cup {"X"}
CFAmounts == {balanceSpeciesIndicator, Q(79, 100, "frac"), Q(21, 1, "pct"),
              Q(1, 1, "frac"), Q(0, 1, "frac")}
CFMixtures ==
    {Gas(comp) : comp \in
        {c \in SeqsUpTo([k : CFSpecies, v : CFAmounts], MaxEntries) :
            DistinctKeys(c) /\ NewMixture(NoneStr, c).ok}}

-----------------------------------------------------------------------------
(* The MFC and its calibrations (models/mfc.py).                            *)

\* datetime.date as <<year, month, day>>, and its ordering.
DateLt(a, b) ==
    \/ a[1] < b[1]
    \/ a[1] = b[1] /\ a[2] < b[2]
    \/ a[1] = b[1] /\ a[2] = b[2] /\ a[3] < b[3]
DateLe(a, b) == a = b \/ DateLt(a, b)

\* CalibrationSelector = Union[int, Literal['latest']]
Latest == [literal |-> "latest"]
Index(i) == [int |-> i]

\* sorted(calibrations, key=lambda c: c.date): stable, ascending.
RECURSIVE InsertByDate(_, _)
InsertByDate(seq, c) ==
    IF seq = <<>> THEN <<c>>
    ELSE IF DateLt(c.date, Head(seq).date) THEN <<c>> \o seq
    ELSE <<Head(seq)>> \o InsertByDate(Tail(seq), c)
RECURSIVE SortedByDate(_)
SortedByDate(calibrations) ==
    IF calibrations = <<>> THEN <<>>
    ELSE InsertByDate(SortedByDate(SubSeq(calibrations, 1, Len(calibrations) - 1)),
                      calibrations[Len(calibrations)])

\* list[i] of Python: a negative index counts from the end of the list.
ListItem(list, i) ==
    IF 0 <= i /\ i < Len(list) THEN Ok(list[i + 1])
    ELSE IF i < 0 /\ -Len(list) <= i THEN Ok(list[Len(list) + i + 1])
    ELSE Raise("IndexError")

\* MFC.get_calibration(selector)
get_calibration_mut(self, sel) ==
    IF sel = Latest
    THEN ListItem(self.calibrations, -1)
    ELSE ListItem(self.calibrations, sel.int)
get_calibration(self, sel) ==
    IF sel = Latest
    THEN ListItem(SortedByDate(self.calibrations), -1)
    ELSE ListItem(self.calibrations, sel.int)

(* Inputs of the MFC.                                                      *)

MaxCalibrations == 3

Dates == { <<2023, 1, 1>>, <<2024, 6, 20>>, <<2024, 1, 31>> }
DatedCalibrations ==
    [date : Dates, offset : {Q(10, 1, "ml/min"), Q(0, 1, "L/min")},
     slope : {Q(3, 2, "L/min")}, temperature : {Q(273, 1, "K")},
     gas : {Gas(Comp1("N2", balanceSpeciesIndicator))}]
MFCs == [name : {"MFC-1"}, calibrations : SeqsUpTo(DatedCalibrations, MaxCalibrations)]
CalibrationSelectors ==
    {Latest} \cup {Index(i) : i \in -(MaxCalibrations + 1) .. MaxCalibrations + 1}

-----------------------------------------------------------------------------
(* The configuration (models/configuration.py).  A line is                 *)
(* [name, device] with device None or [mfc |-> controller name]; a         *)
(* controller is [name].                                                   *)

\* {name for name in names if names.count(name) > 1}
Duplicates(names) ==
    {names[i] : i \in {j \in 1..Len(names) :
                          \E k \in 1..Len(names) : k # j /\ names[k] = names[j]}}
NamesOf(seq) == Vector([i \in 1..Len(seq) |-> seq[i].name])

\* The three validators of Config, which run in this order after the
\* fields are set; each returns self or raises ValueError.
check_for_duplicated_controller_names(self) ==
    IF Duplicates(NamesOf(self.controllers)) # {}
    THEN [ok |-> FALSE, exc |-> "ValueError", msg |-> "Duplicate controller names found"]
    ELSE Ok(self)
check_for_duplicated_line_names(self) ==
    IF Duplicates(NamesOf(self.lines)) # {}
    THEN [ok |-> FALSE, exc |-> "ValueError", msg |-> "Duplicate line names found"]
    ELSE Ok(self)
check_that_device_name_is_in_list_of_controllers_mut(self) == Ok(self)
check_that_device_name_is_in_list_of_controllers(self) ==
    LET mfc_names == Range(NamesOf(self.controllers))
    IN  IF \E i \in 1..Len(self.lines) :
              self.lines[i].device # None /\ self.lines[i].device.mfc \notin mfc_names
        THEN [ok |-> FALSE, exc |-> "ValueError", msg |-> "not found in controllers"]
        ELSE Ok(self)

\* Config(lines=..., controllers=...)
Config(document) ==
    LET Third(r) ==
            IF ~r.ok THEN r ELSE check_that_device_name_is_in_list_of_controllers(r.value)
        Second(r) == IF ~r.ok THEN r ELSE Third(check_for_duplicated_line_names(r.value))
    IN  Second(check_for_duplicated_controller_names(document))

(* Inputs of the configuration.                                            *)

MaxLines == 2
MaxControllers == 2

LineNames == {"line1", "line2"}
ControllerNames == {"Brooks01", "Bronkhorst11"}
Devices == {None} \cup [mfc : ControllerNames]
Documents ==
    [lines : SeqsUpTo([name : LineNames, device : Devices], MaxLines),
     controllers : SeqsUpTo([name : ControllerNames], MaxControllers)]

-----------------------------------------------------------------------------
(* The state machines.                                                     *)

MixIdle == /\ raw = None /\ mix = None /\ mixErr = NoneStr /\ bal = None
           /\ compared = None
SolveIdle == /\ sources = <<>> /\ lines = None /\ target = None /\ call = NoneStr
             /\ weights = None /\ warned = {} /\ raised = None
CalIdle == cal = None /\ calIn = <<>> /\ calOp = NoneStr /\ calOut = <<>>
MFCIdle == mfc = None /\ selector = None /\ selected = None
CFIdle == cfIn = None /\ cfOut = None
TableIdle == _CF_TABLE = None /\ loads = 0 /\ threads = <<>>
ConfigIdle == doc = None /\ config = None
LegacyIdle == converted = None
FrameIdle == out = None
GenerateIdle == generated = None
AgreeIdle == both = None
LoggerIdle == /\ cfg = None /\ now = 0 /\ last_rotation = 0 /\ current_file = None
              /\ files = <<>> /\ logged = 0

\* ---- Mixture: construction and balancing ----

InitMixture ==
    /\ raw \in [name : Names, composition : Compositions]
    /\ mix = None /\ mixErr = NoneStr /\ bal = None /\ compared = None
    /\ SolveIdle /\ CalIdle /\ MFCIdle /\ CFIdle /\ TableIdle /\ ConfigIdle /\ LegacyIdle /\ FrameIdle /\ GenerateIdle /\ AgreeIdle /\ LoggerIdle

\* Mixture(name=raw.name, composition=raw.composition)
Construct ==
    /\ mix = None /\ mixErr = NoneStr
    /\ LET r == NewMixture(raw.name, raw.composition)
       IN  /\ mix' = IF r.ok THEN r.value ELSE None
           /\ mixErr' = IF r.ok THEN NoneStr ELSE r.exc
    /\ UNCHANGED <<raw, bal, compared>>
    /\ UNCHANGED <<solveVars, calVars, mfcVars, cfVars, tableVars, configVars, legacyVars, frameVars, generateVars, agreeVars, loggerVars>>

\* mix.balanced
Balanced_mut ==
    /\ mix # None
    /\ bal' = balanced(mix)
    /\ mix' = balanced(mix)
    /\ UNCHANGED <<raw, mixErr, compared>>
    /\ UNCHANGED <<solveVars, calVars, mfcVars, cfVars, tableVars, configVars, legacyVars, frameVars, generateVars, agreeVars, loggerVars>>
Balanced ==
    /\ mix # None
    /\ bal' = balanced(mix)
    /\ UNCHANGED <<raw, mix, mixErr, compared>>
    /\ UNCHANGED <<solveVars, calVars, mfcVars, cfVars, tableVars, configVars, legacyVars, frameVars, generateVars, agreeVars, loggerVars>>

\* mix == Mixture(name=name, composition=composition), for a composition
\* with the entries of mix, in their order or in the opposite order.
Equals ==
    /\ mix # None /\ compared = None
    /\ \E name \in Names,
          composition \in {mix.composition, Reversed(mix.composition)} :
        \E other \in {NewMixture(name, composition).value} :
            compared' = [other |-> other, equal |-> __eq__(mix, other)]
    /\ UNCHANGED <<raw, mix, mixErr, bal>>
    /\ UNCHANGED <<solveVars, calVars, mfcVars, cfVars, tableVars, configVars, legacyVars, frameVars, generateVars, agreeVars, loggerVars>>

\* supply.convert_mixture(raw.composition)
ConvertMixture ==
    /\ converted = None
    /\ converted' = convert_mixture(raw.composition)
    /\ UNCHANGED <<mixVars, solveVars, calVars, mfcVars, cfVars, tableVars, configVars, frameVars, generateVars, agreeVars, loggerVars>>

NextMixture == Construct \/ Balanced \/ Equals \/ ConvertMixture

SpecMixture == InitMixture /\ [][NextMixture]_vars

\* ---- Mixture: reads and transformations of a constructed instance ----
\* None of the methods assigns to a field of self; each leaves mix as it is
\* and hands its result to the caller (out).

\* mix.fractions and mix.mole_fractions
ReadFractions ==
    /\ mix # None
    /\ out' = [op |-> "fractions", value |-> fractions(mix),
               floats |-> mole_fractions(mix)]
    /\ UNCHANGED <<mixVars, solveVars, calVars, mfcVars, cfVars, tableVars, configVars, legacyVars, generateVars, agreeVars, loggerVars>>

\* mix[key] and mix.get(key, 0.0)
GetAmount ==
    /\ mix # None
    /\ \E key \in Species :
          out' = [op |-> "get", key |-> key,
                  item |-> IF key \in KeySet(mix.composition)
                           THEN Ok(GetItem(mix, key)) ELSE Raise("KeyError"),
                  value |-> Get(mix, key, R0)]
    /\ UNCHANGED <<mixVars, solveVars, calVars, mfcVars, cfVars, tableVars, configVars, legacyVars, generateVars, agreeVars, loggerVars>>

\* Mixture.compose([mix, mix], [0.5, 0.5], balance_with=mix.get_balance_species())
Compose ==
    /\ mix # None
    /\ out' = [op |-> "compose",
               value |-> compose(<<mix, mix>>, <<Rat(1, 2), Rat(1, 2)>>,
                                 get_balance_species(mix.composition))]
    /\ UNCHANGED <<mixVars, solveVars, calVars, mfcVars, cfVars, tableVars, configVars, legacyVars, generateVars, agreeVars, loggerVars>>

\* supply_proportions_for_mixture([mix], mix): mix as source and as target
Resolve ==
    /\ mix # None
    /\ \E r \in {supply_proportions_for_mixture(<<mix>>, mix)} :
          out' = [op |-> "resolve", value |-> r.weights, raised |-> r.raised]
    /\ UNCHANGED <<mixVars, solveVars, calVars, mfcVars, cfVars, tableVars, configVars, legacyVars, generateVars, agreeVars, loggerVars>>

NextFrame == Construct \/ Balanced \/ ReadFractions \/ GetAmount \/ Compose \/ Resolve

SpecFrame == InitMixture /\ [][NextFrame]_vars

\* ---- Mixture resolution ----

InitSolve ==
    /\ sources \in SeqsUpTo(SourceGases, MaxSources)
    /\ target \in Targets
    /\ lines = None /\ call = NoneStr /\ weights = None /\ warned = {} /\ raised = None
    /\ MixIdle /\ CalIdle /\ MFCIdle /\ CFIdle /\ TableIdle /\ ConfigIdle /\ LegacyIdle /\ FrameIdle /\ GenerateIdle /\ AgreeIdle /\ LoggerIdle

\* supply_proportions_for_mixture(sources, target)
SupplyProportions ==
    /\ call = NoneStr
    /\ \E r \in {supply_proportions_for_mixture(sources, target)} :
           /\ weights' = r.weights
           /\ warned' = r.warned
           /\ raised' = IF r.raised = NoneStr THEN None
                        ELSE [exc |-> r.raised, msg |-> r.msg]
    /\ call' = "supply_proportions_for_mixture"
    /\ lines' = None
    /\ UNCHANGED <<sources, target>>
    /\ UNCHANGED <<mixVars, calVars, mfcVars, cfVars, tableVars, configVars, legacyVars, frameVars, generateVars, agreeVars, loggerVars>>

\* MixtureGenerator(config, lines=selection).calculate_mixing_ratios(target)
CalculateMixingRatios ==
    /\ call = NoneStr
    /\ \E selection \in Selections(sources) :
        /\ lines' = selection
        /\ \E r \in {calculate_mixing_ratios(sources, selection, target)} :
               /\ weights' = r.weights
               /\ warned' = r.warned
               /\ raised' = IF r.raised = NoneStr THEN None
                            ELSE [exc |-> r.raised, msg |-> r.msg, names |-> r.names]
    /\ call' = "calculate_mixing_ratios"
    /\ UNCHANGED <<sources, target>>
    /\ UNCHANGED <<mixVars, calVars, mfcVars, cfVars, tableVars, configVars, legacyVars, frameVars, generateVars, agreeVars, loggerVars>>

\* MixtureGenerator._solve_nnls_system(sources, target, species), with the
\* species of the first phase: those of the target except its balance species.
SolveNnlsSystem ==
    /\ call = NoneStr
    /\ \E r \in {_solve_nnls_system(sources, target,
                    sorted(KeySet(target.composition)
                               \ {get_balance_species(target.composition)}))} :
           /\ weights' = IF r.ok THEN r.x ELSE None
           /\ raised' = IF r.ok THEN None ELSE [exc |-> r.exc, msg |-> r.msg]
    /\ warned' = {}
    /\ call' = "_solve_nnls_system"
    /\ lines' = None
    /\ UNCHANGED <<sources, target>>
    /\ UNCHANGED <<mixVars, calVars, mfcVars, cfVars, tableVars, configVars, legacyVars, frameVars, generateVars, agreeVars, loggerVars>>

NextSolve == SupplyProportions \/ CalculateMixingRatios

\* ---- Both solvers on the same input ----

\* supply_proportions_for_mixture(sources, target) and
\* MixtureGenerator._calculate_mixing_ratios(sources, target)
ResolveWithBoth ==
    /\ call = NoneStr
    /\ both' = [supply |-> supply_proportions_for_mixture(sources, target),
                generator |-> _calculate_mixing_ratios(sources, target)]
    /\ call' = "both"
    /\ UNCHANGED <<sources, lines, target, weights, warned, raised>>
    /\ UNCHANGED <<mixVars, calVars, mfcVars, cfVars, tableVars, configVars, legacyVars, frameVars, generateVars, loggerVars>>

NextAgree == ResolveWithBoth

SpecAgree == InitSolve /\ [][NextAgree]_vars

\* ---- FileDataLogger ----

\* FileDataLogger(cfg), constructed at some time
InitLogger ==
    /\ cfg \in LoggingConfigs
    /\ now \in 0..1
    /\ last_rotation = now
    /\ current_file = None
    /\ files = <<>>
    /\ logged = 0
    /\ MixIdle /\ SolveIdle /\ CalIdle /\ MFCIdle /\ CFIdle /\ TableIdle /\ ConfigIdle /\ LegacyIdle /\ FrameIdle /\ GenerateIdle /\ AgreeIdle

\* time passes
Tick ==
    /\ now < MaxTime
    /\ now' = now + 1
    /\ UNCHANGED <<cfg, last_rotation, current_file, files, logged>>
    /\ UNCHANGED <<mixVars, solveVars, calVars, mfcVars, cfVars, tableVars, configVars, legacyVars, frameVars, generateVars, agreeVars>>

\* logger.log_data(data)
LogData ==
    /\ logged < MaxLogCalls
    /\ \E rows \in 0..MaxRows :
        \E r \in {log_data(cfg, now, last_rotation, current_file, files, rows)} :
            /\ last_rotation' = r.last_rotation
            /\ current_file' = r.current_file
            /\ files' = r.files
    /\ logged' = logged + 1
    /\ UNCHANGED <<cfg, now>>
    /\ UNCHANGED <<mixVars, solveVars, calVars, mfcVars, cfVars, tableVars, configVars, legacyVars, frameVars, generateVars, agreeVars>>

NextLogger == Tick \/ LogData

SpecLogger == InitLogger /\ [][NextLogger]_vars

\* ---- MixtureGenerator.generate ----

InitGenerate ==
    /\ sources \in SeqsUpTo(SourceGases, MaxSources)
    /\ target \in GenerateTargets
    /\ lines = None /\ call = NoneStr /\ weights = None /\ warned = {} /\ raised = None
    /\ generated = None
    /\ MixIdle /\ CalIdle /\ MFCIdle /\ CFIdle /\ TableIdle /\ ConfigIdle /\ LegacyIdle /\ FrameIdle /\ AgreeIdle /\ LoggerIdle

\* MixtureGenerator(config, lines=selection).generate(target, flowrate, temperature)
Generate ==
    /\ call = NoneStr
    /\ \E selection \in Selections(sources), flowrate \in FlowRates :
        /\ lines' = selection
        /\ \E r \in {generate(sources, selection, target, flowrate)} : generated' = r
    /\ call' = "generate"
    /\ UNCHANGED <<sources, target, weights, warned, raised>>
    /\ UNCHANGED <<mixVars, calVars, mfcVars, cfVars, tableVars, configVars, legacyVars, frameVars, agreeVars, loggerVars>>

NextGenerate == Generate

SpecGenerate == InitGenerate /\ [][NextGenerate]_vars

SpecSolve == InitSolve /\ [][NextSolve]_vars

\* The three entry points of the mixture resolution, each called directly.
NextEntry == SupplyProportions \/ CalculateMixingRatios \/ SolveNnlsSystem

SpecEntry == InitSolve /\ [][NextEntry]_vars

\* ---- Calibration ----

InitCal ==
    /\ cal \in Calibrations
    /\ calIn = <<>> /\ calOp = NoneStr /\ calOut = <<>>
    /\ MixIdle /\ SolveIdle /\ MFCIdle /\ CFIdle /\ TableIdle /\ ConfigIdle /\ LegacyIdle /\ FrameIdle /\ GenerateIdle /\ AgreeIdle /\ LoggerIdle

\* cal.setpoint_to_flowrate(setpoint, gas=gas, temperature=temperature)
SetpointToFlowrate ==
    /\ calOp = NoneStr
    /\ \E setpoint \in Setpoints, gas \in GasArguments,
          temperature \in TemperatureArguments :
        /\ calIn' = <<[setpoint |-> setpoint, gas |-> gas, temperature |-> temperature]>>
        /\ calOut' = <<setpoint_to_flowrate(cal, setpoint, gas, temperature)>>
    /\ calOp' = "setpoint_to_flowrate"
    /\ UNCHANGED cal
    /\ UNCHANGED <<mixVars, solveVars, mfcVars, cfVars, tableVars, configVars, legacyVars, frameVars, generateVars, agreeVars, loggerVars>>

\* cal.flowrate_to_setpoint(flowrate, gas=gas, temperature=temperature), as
\* the first call with a flow rate of the caller, or with the flow rate
\* that setpoint_to_flowrate has just returned.
FlowrateToSetpoint ==
    /\ \/ calOp = NoneStr
       \/ calOp = "setpoint_to_flowrate" /\ calOut[1].ok
    /\ \E flowrate \in (IF calOp = NoneStr THEN Flowrates ELSE {calOut[1].value}),
          gas \in GasArguments, temperature \in TemperatureArguments :
        /\ calIn' = Append(calIn,
              [flowrate |-> flowrate, gas |-> gas, temperature |-> temperature])
        /\ calOut' = Append(calOut, flowrate_to_setpoint(cal, flowrate, gas, temperature))
    /\ calOp' = "flowrate_to_setpoint"
    /\ UNCHANGED cal
    /\ UNCHANGED <<mixVars, solveVars, mfcVars, cfVars, tableVars, configVars, legacyVars, frameVars, generateVars, agreeVars, loggerVars>>

NextCal == SetpointToFlowrate \/ FlowrateToSetpoint

SpecCal == InitCal /\ [][NextCal]_vars

\* ---- MFC ----

InitMFC ==
    /\ mfc \in MFCs
    /\ selector = None /\ selected = None
    /\ MixIdle /\ SolveIdle /\ CalIdle /\ CFIdle /\ TableIdle /\ ConfigIdle /\ LegacyIdle /\ FrameIdle /\ GenerateIdle /\ AgreeIdle /\ LoggerIdle

\* mfc.get_calibration(selector)
GetCalibration ==
    /\ selector = None
    /\ \E sel \in CalibrationSelectors :
        /\ selector' = sel
        /\ selected' = get_calibration(mfc, sel)
    /\ UNCHANGED mfc
    /\ UNCHANGED <<mixVars, solveVars, calVars, cfVars, tableVars, configVars, legacyVars, frameVars, generateVars, agreeVars, loggerVars>>

NextMFC == GetCalibration

SpecMFC == InitMFC /\ [][NextMFC]_vars

\* ---- Conversion factors ----

InitCF ==
    /\ cfIn \in CFMixtures
    /\ cfOut = None
    /\ MixIdle /\ SolveIdle /\ CalIdle /\ MFCIdle /\ TableIdle /\ ConfigIdle /\ LegacyIdle /\ FrameIdle /\ GenerateIdle /\ AgreeIdle /\ LoggerIdle

\* calculate_CF(cfIn)
CalculateCF ==
    /\ cfOut = None
    /\ cfOut' = calculate_CF(cfIn)
    /\ UNCHANGED cfIn
    /\ UNCHANGED <<mixVars, solveVars, calVars, mfcVars, tableVars, configVars, legacyVars, frameVars, generateVars, agreeVars, loggerVars>>

NextCF == CalculateCF

SpecCF == InitCF /\ [][NextCF]_vars

\* ---- The cached table of conversion factors (cf.py) ----
\* Threads call get_CF_table(); each call runs _ensure_CF_table and then
\* reads the global.  A thread can be preempted between any two steps: the
\* test of the global, the read of the file, the assignment and the return.

MaxThreads == 2
MaxCalls == 2
Threads == 1..MaxThreads

InitTable ==
    /\ _CF_TABLE = None
    /\ loads = 0
    /\ threads = [t \in Threads |-> [pc |-> "idle", table |-> None, got |-> <<>>]]
    /\ MixIdle /\ SolveIdle /\ CalIdle /\ MFCIdle /\ CFIdle /\ ConfigIdle /\ LegacyIdle /\ FrameIdle /\ GenerateIdle /\ AgreeIdle /\ LoggerIdle

\* get_CF_table() is called: line 31, _ensure_CF_table() is entered
GetCFTable(t) ==
    /\ threads[t].pc = "idle" /\ Len(threads[t].got) < MaxCalls
    /\ threads' = [threads EXCEPT ![t].pc = "ensure"]
    /\ UNCHANGED <<_CF_TABLE, loads>>
    /\ UNCHANGED <<mixVars, solveVars, calVars, mfcVars, cfVars, configVars, legacyVars, frameVars, generateVars, agreeVars, loggerVars>>

\* line 17: if _CF_TABLE is None
TestTable(t) ==
    /\ threads[t].pc = "ensure"
    /\ threads' = [threads EXCEPT ![t].pc = IF _CF_TABLE = None THEN "load" ELSE "return"]
    /\ UNCHANGED <<_CF_TABLE, loads>>
    /\ UNCHANGED <<mixVars, solveVars, calVars, mfcVars, cfVars, configVars, legacyVars, frameVars, generateVars, agreeVars, loggerVars>>

\* line 18, right-hand side: _load_default_CF_table() reads the file into a
\* new table, identified by the number of the read
LoadTable(t) ==
    /\ threads[t].pc = "load"
    /\ loads' = loads + 1
    /\ threads' = [threads EXCEPT ![t].pc = "store", ![t].table = [id |-> loads + 1]]
    /\ UNCHANGED _CF_TABLE
    /\ UNCHANGED <<mixVars, solveVars, calVars, mfcVars, cfVars, configVars, legacyVars, frameVars, generateVars, agreeVars, loggerVars>>

\* line 18: _CF_TABLE = ...
StoreTable(t) ==
    /\ threads[t].pc = "store"
    /\ _CF_TABLE' = threads[t].table
    /\ threads' = [threads EXCEPT ![t].pc = "return"]
    /\ UNCHANGED loads
    /\ UNCHANGED <<mixVars, solveVars, calVars, mfcVars, cfVars, configVars, legacyVars, frameVars, generateVars, agreeVars, loggerVars>>

\* line 32: return _CF_TABLE
ReturnTable(t) ==
    /\ threads[t].pc = "return"
    /\ threads' = [threads EXCEPT ![t].pc = "idle",
                                  ![t].got = Append(@, _CF_TABLE)]
    /\ UNCHANGED <<_CF_TABLE, loads>>
    /\ UNCHANGED <<mixVars, solveVars, calVars, mfcVars, cfVars, configVars, legacyVars, frameVars, generateVars, agreeVars, loggerVars>>

NextTable ==
    \/ \E t \in Threads : GetCFTable(t)
    \/ \E t \in Threads : TestTable(t)
    \/ \E t \in Threads : LoadTable(t)
    \/ \E t \in Threads : StoreTable(t)
    \/ \E t \in Threads : ReturnTable(t)

SpecTable == InitTable /\ [][NextTable]_vars

\* ---- Configuration ----

InitConfig ==
    /\ doc \in Documents
    /\ config = None
    /\ MixIdle /\ SolveIdle /\ CalIdle /\ MFCIdle /\ CFIdle /\ TableIdle /\ LegacyIdle /\ FrameIdle /\ GenerateIdle /\ AgreeIdle /\ LoggerIdle

\* Config.model_validate(doc)
ValidateConfig ==
    /\ config = None
    /\ config' = Config(doc)
    /\ UNCHANGED doc
    /\ UNCHANGED <<mixVars, solveVars, calVars, mfcVars, cfVars, tableVars, legacyVars, frameVars, generateVars, agreeVars, loggerVars>>

NextConfig == ValidateConfig

SpecConfig == InitConfig /\ [][NextConfig]_vars

-----------------------------------------------------------------------------
(* Properties of the Mixture value type.                                   *)

BalanceCount(comp) ==
    Cardinality({i \in 1..Len(comp) : comp[i].v = balanceSpeciesIndicator})

Constructed == mix # None \/ mixErr # NoneStr

\* C1: constructing a Mixture whose composition marks two or more species
\* with the balance indicator fails with a ValueError, and no Mixture
\* instance, constructed or returned by balancing, has more than one
\* Balance entry.
C1_TwoBalanceMarkersRejected ==
    /\ (Constructed /\ BalanceCount(raw.composition) >= 2)
            => (mixErr = "ValueError" /\ mix = None)
    /\ mix # None => BalanceCount(mix.composition) <= 1
    /\ bal # None => BalanceCount(bal.composition) <= 1

C1_Witness ==
    /\ Constructed /\ BalanceCount(raw.composition) >= 2 /\ mixErr = "ValueError"

\* C2: for a Mixture with exactly one Balance species, the balanced
\* composition holds no marker any more and its fractions, converted from
\* their units to the base unit, sum to exactly 1.
C2_BalancedSumsToOne ==
    (bal # None /\ BalanceCount(mix.composition) = 1)
        => /\ BalanceCount(bal.composition) = 0
           /\ Total(bal.composition) = R1

C2_Witness ==
    /\ bal # None /\ BalanceCount(mix.composition) = 1
    /\ \E i, j \in 1..Len(mix.composition) :
          /\ mix.composition[i].v # balanceSpeciesIndicator
          /\ mix.composition[j].v # balanceSpeciesIndicator
          /\ mix.composition[i].v.u = "pct"
          /\ mix.composition[j].v.u = "ppm"

-----------------------------------------------------------------------------
(* Properties of the mixture resolution.                                   *)

\* The entry point that ran returned weights.
Returned == call # NoneStr /\ raised = None

\* The sources the entry point that ran resolved against.
Used == IF call = "calculate_mixing_ratios" THEN _get_lines(sources, lines) ELSE sources

\* The explicitly specified (non-Balance) species of the target, and the
\* target's species that no source supplies.
Specified(mixture) ==
    {mixture.composition[i].k : i \in {j \in 1..Len(mixture.composition) :
        mixture.composition[j].v # balanceSpeciesIndicator}}
Unsupplied(srcs, mixture) == KeySet(mixture.composition) \ SourceSpecies(srcs)

\* The target is achievable: there are weights w >= 0 with sum 1 such that
\* the blend has the target's amount of every specified species.  Decided
\* exactly: the system (one row per specified species, one row of ones) has
\* a non-negative solution iff its non-negative least-squares residual is 0.
Achievable(srcs, mixture) ==
    LET spec == sorted(Specified(mixture))
        N == Len(srcs)
        A == SourceMatrix(srcs, spec) \o <<Vector([j \in 1..N |-> R1])>>
        b == TargetVector(mixture, spec) \o <<R1>>
        w == nnls(A, b, N)
    IN  \A i \in 1..Len(b) :
            RSumSeq([j \in 1..N |-> RMul(A[i][j], w[j])]) = b[i]

\* The weights x reproduce the target on its specified species.
Reproduces(srcs, x, mixture) ==
    \A name \in Specified(mixture) :
        Blend(srcs, x, name) = m_as(GetItem(mixture, name))

\* |sum(x) - 1| > 1e-4
OffByMoreThanTolerance(x) ==
    LET diff == RSub(RSumSeq(x), R1)
    IN  Abs(diff.n) * 10000 > diff.d

\* C3 (as claimed): whenever the target is achievable, the weights returned
\* by the two-phase solve reproduce the target on every specified species.
C3_AchievableTargetReproduced ==
    (Returned /\ Achievable(Used, target))
        => Reproduces(Used, weights, target)

\* C4 (as claimed): supply_proportions_for_mixture returns weights whose sum
\* is within 1e-4 of 1 whenever the target is achievable, and emits a
\* warning otherwise.
C4_AchievableSumsToOne ==
    (call = "supply_proportions_for_mixture" /\ Returned)
        => /\ Achievable(sources, target) => ~OffByMoreThanTolerance(weights)
           /\ ~Achievable(sources, target) => warned # {}

\* The calibration call that ran last: its arguments and its outcome.
LastIn == calIn[Len(calIn)]
LastOut == calOut[Len(calOut)]

\* A setpoint in [0, 1]; a temperature argument the calls accept (None, or
\* a temperature of at least 0 K).
InUnitInterval(s) == Dimension(s.u) = "[]" /\ RLe(R0, m_as(s)) /\ RLe(m_as(s), R1)
UsableTemperature(t) ==
    t = None \/ (Dimension(t.u) = "[temperature]" /\ RLe(R0, to_K(t)))

\* flowrate_to_setpoint ran on the flow rate that setpoint_to_flowrate
\* returned, with the same gas and temperature arguments.
RoundTrip ==
    /\ calOp = "flowrate_to_setpoint" /\ Len(calIn) = 2
    /\ calIn[2].flowrate = calOut[1].value
    /\ calIn[2].gas = calIn[1].gas
    /\ calIn[2].temperature = calIn[1].temperature

\* C5 (as claimed): for every LinearCalibration and every setpoint s in
\* [0, 1], setpoint_to_flowrate returns a flow rate, and flowrate_to_setpoint
\* of it, with the same gas and temperature (or the defaults), returns s.
C5_RoundTripIdentity ==
    /\ (/\ calOp = "setpoint_to_flowrate"
        /\ InUnitInterval(calIn[1].setpoint)
        /\ UsableTemperature(calIn[1].temperature)) => calOut[1].ok
    /\ RoundTrip => (calOut[2].ok /\ Base(calOut[2].value) = m_as(calIn[1].setpoint))

\* C5 (amended): the round trip returns s for every LinearCalibration whose
\* slope is not zero and whose temperature is above 0 K, when the
\* temperature argument is None or above 0 K; with a zero slope or a
\* temperature of 0 K one of the two calls divides by zero.
AboveZeroKelvin(t) == t = None \/ RLt(R0, to_K(t))
C5_RoundTripIdentityWhenInvertible ==
    /\ (/\ calOp = "setpoint_to_flowrate"
        /\ InUnitInterval(calIn[1].setpoint)
        /\ UsableTemperature(calIn[1].temperature)
        /\ RLt(R0, to_K(cal.temperature))) => calOut[1].ok
    /\ (/\ RoundTrip
        /\ cal.slope.m # R0
        /\ RLt(R0, to_K(cal.temperature))
        /\ AboveZeroKelvin(calIn[1].temperature))
         => (calOut[2].ok /\ Base(calOut[2].value) = m_as(calIn[1].setpoint))

C5_Witness ==
    /\ RoundTrip
    /\ cal.slope.u # cal.offset.u /\ cal.offset.m # R0
    /\ calIn[1].gas # None /\ calIn[1].gas # cal.gas
    /\ calIn[1].temperature # None /\ calIn[1].temperature # cal.temperature
    /\ calIn[1].setpoint.u = "pct"
    /\ calOut[2].ok /\ Base(calOut[2].value) = Rat(1, 2)

\* C6 (as claimed): flowrate_to_setpoint rejects every negative flow rate,
\* for every calibration offset and slope; stated as the claim's
\* consequence, a negative flow rate never yields a returned setpoint.
C6_NegativeFlowRejected ==
    (/\ calOp = "flowrate_to_setpoint"
     /\ Dimension(LastIn.flowrate.u) = "[volume]/[time]"
     /\ RLt(Base(LastIn.flowrate), R0)) => ~LastOut.ok

SuppliedAndSpecified(srcs, mixture) == Specified(mixture) \cap SourceSpecies(srcs)
NamesUnsupplied ==
    /\ raised # None
    /\ raised.exc = "ValueError"
    /\ raised.msg = "not present in any of the sources"
    /\ raised.names = Unsupplied(Used, target)
C8_UnsuppliedSpeciesNamed ==
    (call = "calculate_mixing_ratios" /\ Unsupplied(Used, target) # {})
        => NamesUnsupplied

\* C8 (amended): ... whenever at least one source line is selected and the
\* target contains a species present in none of the selected lines; with no
\* line selected the ValueError is the one for "No sources provided".
C8_UnsuppliedSpeciesNamedGivenSources ==
    (call = "calculate_mixing_ratios" /\ Unsupplied(Used, target) # {})
        => IF Len(Used) > 0 THEN NamesUnsupplied
           ELSE /\ raised # None /\ raised.exc = "ValueError"
                /\ raised.msg = "No sources provided"

C8_Witness ==
    /\ call = "calculate_mixing_ratios"
    /\ Len(Used) > 0
    /\ Unsupplied(Used, target) # {}
    /\ Unsupplied(Used, target) # KeySet(target.composition)
    /\ NamesUnsupplied

\* C9: supply_proportions_for_mixture emits the inconsistency warning exactly
\* when the sum of the returned weights differs from 1 by more than 1e-4,
\* and it then returns the weights instead of raising.
C9_InconsistencyWarningIsNonFatal ==
    call = "supply_proportions_for_mixture" =>
        /\ Returned =>
              ("Inconsistent" \in warned <=> OffByMoreThanTolerance(weights))
        /\ "Inconsistent" \in warned => Returned

C9_Witness ==
    /\ call = "supply_proportions_for_mixture"
    /\ "Inconsistent" \in warned
    /\ Returned
    /\ RLt(RSumSeq(weights), R1)

\* A selection with the entries i and i+1 exchanged, and the same for a
\* weight vector.
Swap(seq, i) ==
    Vector([j \in 1..Len(seq) |->
        IF j = i THEN seq[i + 1] ELSE IF j = i + 1 THEN seq[i] ELSE seq[j]])

\* Exchanging two neighbours of the selection exchanges their weights;
\* exchanges of neighbours generate every permutation.
PermutingPermutesWeights ==
    \A i \in 1..(Len(lines.names) - 1) :
        calculate_mixing_ratios(sources,
            [mode |-> "list", names |-> Swap(lines.names, i)], target).weights
          = Swap(weights, i)

\* The phase-1 system has a unique least-squares solution: the selected
\* sources, restricted to the specified species of the target, are
\* linearly independent (the Gram matrix is regular).  The phase-2 system
\* has the same columns over more rows, so it is unique as well.
PhaseOneUnique(srcs, mixture) ==
    LET A == SourceMatrix(srcs, sorted(Specified(mixture)))
        N == Len(srcs)
        AtA == Vector([i \in 1..N |-> Vector([j \in 1..N |->
                  RSumSeq([m \in 1..Len(A) |-> RMul(A[m][i], A[m][j])])])])
    IN  Det(AtA) # R0

\* C10 (as claimed): the weight vector has one entry per source, in the
\* order of the requested line names, so that permuting the selection
\* permutes the weights identically (stated here for selections of lines
\* with pairwise different gases only).
C10_WeightsFollowSelection ==
    (call = "calculate_mixing_ratios" /\ Returned) =>
        /\ Len(weights) = Len(Used)
        /\ (lines.mode = "list" /\ Distinct(Used)) => PermutingPermutesWeights

\* C10 (amended): the weight vector has one entry per source, in the order
\* of the requested line names; permuting the selection permutes the
\* weights identically when the selected sources are linearly independent
\* on the specified species of the target (otherwise the least-squares
\* solution is not unique and the tie-break depends on the order).
C10_WeightsFollowSelectionWhenUnique ==
    (call = "calculate_mixing_ratios" /\ Returned) =>
        /\ Len(weights) = Len(Used)
        /\ lines.mode = "list" => Len(weights) = Len(lines.names)
        /\ (lines.mode = "list" /\ PhaseOneUnique(Used, target))
                => PermutingPermutesWeights

C10_Witness ==
    /\ call = "calculate_mixing_ratios" /\ Returned
    /\ lines.mode = "list" /\ lines.names = <<2, 1>>
    /\ PhaseOneUnique(Used, target)
    /\ weights[1] # weights[2]
    /\ sources[1] # sources[2]

-----------------------------------------------------------------------------
(* Properties of the calibration, the MFC and the conversion factors.      *)

\* The first calibration call was setpoint_to_flowrate, with a setpoint in
\* [0, 1] and a temperature argument it accepts.
ForwardValid ==
    /\ Len(calIn) >= 1 /\ (calOp = "setpoint_to_flowrate" \/ Len(calIn) = 2)
    /\ InUnitInterval(calIn[1].setpoint)
    /\ UsableTemperature(calIn[1].temperature)

\* A temperature on the absolute scale: 0 degC is 273.15 K.
Kelvin(t) == IF t.u = "degC" THEN RAdd(t.m, Rat(5463, 20)) ELSE t.m

\* (offset + s * slope) * (gas.cf / calibration.gas.cf) * (T / T_calibration)
\* in ml/min, the omitted gas and temperature being the calibration's own.
ExpectedFlowrate(self, s, gas, temperature) ==
    LET flow_raw == RAdd(Base(self.offset), RMul(m_as(s), Base(self.slope)))
        g == IF gas = None THEN self.gas ELSE gas
        t == IF temperature = None THEN self.temperature ELSE temperature
    IN  RMul(RMul(flow_raw, RDiv(cf(g), cf(self.gas))),
             RDiv(Kelvin(t), Kelvin(self.temperature)))

\* C11: for a valid setpoint s, setpoint_to_flowrate returns
\* (offset + s * slope) * (gas.cf / calibration.gas.cf) * (T / T_calibration)
\* with both temperatures in kelvin whatever their unit; with gas and
\* temperature omitted the result is offset + s * slope.
C11_FlowrateFormula ==
    ForwardValid =>
        /\ calOut[1].ok
        /\ Base(calOut[1].value)
             = ExpectedFlowrate(cal, calIn[1].setpoint, calIn[1].gas, calIn[1].temperature)
        /\ (calIn[1].gas = None /\ calIn[1].temperature = None) =>
              Base(calOut[1].value)
                = RAdd(Base(cal.offset), RMul(m_as(calIn[1].setpoint), Base(cal.slope)))

C11_Witness ==
    /\ calOp = "setpoint_to_flowrate" /\ ForwardValid
    /\ calIn[1].gas # None /\ calIn[1].gas # cal.gas
    /\ calIn[1].temperature # None /\ calIn[1].temperature.u = "degC"
    /\ cal.temperature.u = "K"
    /\ cal.offset.m # R0 /\ cal.slope.u # cal.offset.u
    /\ calIn[1].setpoint = Q(1, 2, "frac")
    /\ calOut[1].ok

\* flowrate_to_setpoint ran on a flow rate, with a temperature argument
\* above 0 K (or none) and a calibration slope other than zero: its
\* arguments pass the validation and nothing divides by zero.
BackwardValid ==
    /\ calOp = "flowrate_to_setpoint"
    /\ Dimension(LastIn.flowrate.u) = "[volume]/[time]"
    /\ UsableTemperature(LastIn.temperature) /\ AboveZeroKelvin(LastIn.temperature)
    /\ cal.slope.m # R0

\* (flow * (calibration.gas.cf / gas.cf) * (T_calibration / T) - offset) / slope
InvertedSetpoint(self, flowrate, gas, temperature) ==
    LET g == IF gas = None THEN self.gas ELSE gas
        t == IF temperature = None THEN self.temperature ELSE temperature
        corrected == RMul(RMul(Base(flowrate),
                               RDiv(cf(self.gas), cf(g))),
                          RDiv(Kelvin(self.temperature), Kelvin(t)))
    IN  RDiv(RSub(corrected, Base(self.offset)), Base(self.slope))

\* C12: flowrate_to_setpoint only ever returns setpoints inside [0, 1]; when
\* the inverted value (corrected flow - offset) / slope lies outside [0, 1]
\* it raises an error instead of clamping or returning the value.
C12_SetpointInUnitInterval ==
    /\ (calOp = "flowrate_to_setpoint" /\ LastOut.ok) =>
          (RLe(R0, Base(LastOut.value)) /\ RLe(Base(LastOut.value), R1))
    /\ BackwardValid =>
          LET inverted == InvertedSetpoint(cal, LastIn.flowrate, LastIn.gas,
                                           LastIn.temperature)
          IN  IF RLe(R0, inverted) /\ RLe(inverted, R1)
              THEN LastOut.ok /\ Base(LastOut.value) = inverted
              ELSE ~LastOut.ok /\ LastOut.exc = "ValueError"

C12_Witness ==
    /\ BackwardValid /\ Len(calIn) = 1
    /\ RLt(R1, InvertedSetpoint(cal, LastIn.flowrate, LastIn.gas, LastIn.temperature))
    /\ ~LastOut.ok /\ LastOut.exc = "ValueError"

\* C13: setpoint_to_flowrate raises an error for every setpoint that is not
\* dimensionless or lies outside [0, 1], and accepts the boundary values 0
\* and 1.
C13_SetpointValidated ==
    calOp = "setpoint_to_flowrate" =>
        /\ ~InUnitInterval(calIn[1].setpoint) =>
              (~calOut[1].ok /\ calOut[1].exc = "ValueError")
        /\ (/\ Dimension(calIn[1].setpoint.u) = "[]"
            /\ m_as(calIn[1].setpoint) \in {R0, R1}
            /\ UsableTemperature(calIn[1].temperature)) => calOut[1].ok

C13_Witness ==
    /\ calOp = "setpoint_to_flowrate"
    /\ calIn[1].setpoint = Q(110, 1, "pct")
    /\ calIn[1].temperature = None
    /\ ~calOut[1].ok /\ calOut[1].exc = "ValueError"

\* C14: in setpoint_to_flowrate and in flowrate_to_setpoint a supplied
\* temperature that has no temperature dimension or is below 0 K causes an
\* error; without a temperature the calibration's own temperature is used.
C14_TemperatureValidated ==
    calOp # NoneStr =>
        /\ ~UsableTemperature(LastIn.temperature) =>
              (~LastOut.ok /\ LastOut.exc = "ValueError")
        /\ LastIn.temperature = None =>
              LastOut = (IF calOp = "setpoint_to_flowrate"
                         THEN setpoint_to_flowrate(cal, LastIn.setpoint, LastIn.gas,
                                                   cal.temperature)
                         ELSE flowrate_to_setpoint(cal, LastIn.flowrate, LastIn.gas,
                                                   cal.temperature))

C14_Witness ==
    /\ calOp = "flowrate_to_setpoint" /\ Len(calIn) = 1
    /\ LastIn.flowrate = Q(760, 1, "ml/min")
    /\ LastIn.temperature = Q(-1, 1, "K")
    /\ cal.offset = Q(10, 1, "ml/min") /\ cal.slope = Q(3, 2, "L/min")
    /\ ~LastOut.ok /\ LastOut.exc = "ValueError"

\* The calibrations of the MFC, and the call of get_calibration that ran.
Calibs == mfc.calibrations
Selected == selector # None

\* C15: get_calibration('latest') returns a calibration of the MFC whose
\* date is greater than or equal to the date of every calibration of the
\* MFC, whatever the order of the list (on an empty list there is nothing to
\* return and the call raises IndexError); an integer selector returns the
\* calibration at that position of the list, a negative one counting from
\* the end as list indices do, and an integer outside the list raises
\* IndexError.
C15_GetCalibration ==
    Selected =>
        /\ (selector = Latest /\ Calibs # <<>>) =>
              /\ selected.ok
              /\ \E i \in 1 .. Len(Calibs) : Calibs[i] = selected.value
              /\ \A i \in 1 .. Len(Calibs) : DateLe(Calibs[i].date, selected.value.date)
        /\ (selector = Latest /\ Calibs = <<>>) =>
              ~selected.ok /\ selected.exc = "IndexError"
        /\ selector # Latest =>
              LET i == selector.int
              IN  /\ (0 <= i /\ i < Len(Calibs)) =>
                        selected.ok /\ selected.value = Calibs[i + 1]
                  /\ (-Len(Calibs) <= i /\ i < 0) =>
                        selected.ok /\ selected.value = Calibs[Len(Calibs) + i + 1]
                  /\ (i >= Len(Calibs) \/ i < -Len(Calibs)) =>
                        ~selected.ok /\ selected.exc = "IndexError"

\* The latest calibration is listed first, before two older ones.
C15_Witness ==
    /\ Selected /\ selector = Latest
    /\ Len(Calibs) = 3
    /\ Calibs[1].date = <<2024, 6, 20>>
    /\ Calibs[2].date = <<2023, 1, 1>>
    /\ Calibs[3].date = <<2024, 1, 31>>
    /\ selected.ok /\ selected.value = Calibs[1]

\* An entry point of the mixture resolution ran on an empty list of sources.
NoSources == call # NoneStr /\ Used = <<>>

C17_NameSynthesized ==
    (mix # None /\ raw.name = NoneStr) => mix.name = Join(Keys(raw.composition))

\* C18: the name of a Mixture takes no part in equality or lookups: two
\* Mixtures with the same composition compare equal, whatever their names,
\* and [] and get give the same amounts for both.
C18_NameNotInEquality ==
    (compared # None /\ MappingEq(mix.composition, compared.other.composition)) =>
        /\ compared.equal
        /\ \A key \in Species :
              AmountEq(Get(mix, key, R0), Get(compared.other, key, R0))

\* The fractions calculate_CF iterates over, the species among them that the
\* table does not list, and the sum of fraction / CF over the species.
Fractions == balanced(cfIn).composition
Unlisted == KeySet(Fractions) \ CFSymbols
Denominator ==
    RSumSeq(Vector([i \in 1..Len(Fractions) |->
        RDiv(m_as(Fractions[i].v), CFTable(Fractions[i].k))]))

\* C19: for a mixture of species of the table calculate_CF returns the sum
\* of all fractions divided by the sum over the species of fraction / CF
\* (where that sum is not zero), in exact arithmetic; a mixture of a single
\* species has the CF of that species in the table.
C19_ConversionFactor ==
    (cfOut # None /\ Unlisted = {} /\ Denominator # R0) =>
        /\ cfOut.ok
        /\ cfOut.value = RDiv(Total(Fractions), Denominator)
        /\ Len(Fractions) = 1 => cfOut.value = CFTable(Fractions[1].k)

\* Air: 79 % N2 and 21 % O2 have the conversion factor 1 / (0.79 + 0.21 / 0.988).
C19_Witness ==
    /\ cfOut # None /\ cfOut.ok
    /\ Len(Fractions) = 2
    /\ Fractions[1] = [k |-> "N2", v |-> Q(79, 100, "frac")]
    /\ Fractions[2] = [k |-> "O2", v |-> Q(21, 1, "pct")]
    /\ cfOut.value = Rat(24700, 24763)

\* C20: calculate_CF on a mixture with a species that the table does not
\* list raises KeyError and returns no value.
C20_UnknownSpeciesRaises ==
    (cfOut # None /\ Unlisted # {}) => ~cfOut.ok /\ cfOut.exc = "KeyError"

\* The unlisted species comes last, after a listed one.
C20_Witness ==
    /\ cfOut # None /\ ~cfOut.ok /\ cfOut.exc = "KeyError"
    /\ Len(Fractions) = 2
    /\ Fractions[1].k = "N2" /\ Fractions[2].k = "X"

SpecifiedSum == TotalExcept(raw.composition, get_balance_species(raw.composition))

SpecifiedSpecies == sorted(KeySet(target.composition)
                             \ {get_balance_species(target.composition)})
CallSources ==
    IF call = "calculate_mixing_ratios" THEN _get_lines(sources, lines) ELSE sources
Phase1OfCall ==
    IF call = "supply_proportions_for_mixture"
    THEN phase1_of_supply_proportions(sources, target)
    ELSE phase1_of_calculate_mixing_ratios(CallSources, target)

\* C26: in every call of either solver with at least one source, the first
\* solve is executed, and its rows are exactly the species of the target
\* without the balance species: no row for the balance species or for a
\* species only the sources have, and a row for each specified species of
\* the target, supplied or not.
C26_Phase1OverSpecified ==
    (call # NoneStr /\ Len(CallSources) > 0)
        => /\ Phase1OfCall.executed
           /\ Phase1OfCall.species = SpecifiedSpecies

\* The weights of the components generate returned.
ResultWeights ==
    Vector([k \in 1..Len(generated.components) |-> generated.components[k].weight])

\* C27: whenever generate returns a result, success is True exactly when the
\* weights pass the consistency check of the solver: success implies
\* |sum of weights - 1| <= 1e-4, and a sum the check would warn about gives
\* success = False.
C27_SuccessIsConsistent ==
    (generated # None /\ generated.raised = NoneStr)
        => (generated.success <=> ~Inconsistent(ResultWeights))

\* C28: flowrate_to_setpoint, for every calibration, flow rate, gas and
\* temperature (0 K and a slope of 0 included), ends in one of two ways: it
\* returns a setpoint in [0, 1], or it raises the error of the validation;
\* it never ends with a division by zero.
C28_NoDivisionByZero ==
    calOp = "flowrate_to_setpoint"
        => /\ LastOut.ok => InUnitInterval(LastOut.value)
           /\ ~LastOut.ok => LastOut.exc # "ZeroDivisionError"

\* C29: called with the same sources and the same target, every species of
\* which some source supplies, supply_proportions_for_mixture and
\* MixtureGenerator._calculate_mixing_ratios both return weights, and the
\* same ones, whether the target has a Balance species or not.
AllSupplied == Len(sources) > 0 /\ KeySet(target.composition) \subseteq SourceSpecies(sources)
C29_SolversAgree ==
    (both # None /\ AllSupplied)
        => /\ both.supply.raised = NoneStr
           /\ both.generator.raised = NoneStr
           /\ both.supply.weights = both.generator.weights

-----------------------------------------------------------------------------
(* Properties of the table cache, the configuration and the data logger.   *)

\* The tables that calls of get_CF_table have returned so far.
TablesReturned == UNION {Range(threads[t].got) : t \in Threads}

\* C21: the default table is loaded at most once and then cached: every
\* call of get_CF_table returns the same table, never an unset one, also
\* when several threads make their first call concurrently.
C21_LoadedOnce ==
    /\ loads <= 1
    /\ None \notin TablesReturned
    /\ Cardinality(TablesReturned) <= 1

\* A document is well-formed: the names of the controllers are pairwise
\* distinct, so are the names of the lines, and the device of every line
\* that has one names a controller of the document.
WellFormed(d) ==
    /\ \A i, j \in 1..Len(d.controllers) :
          d.controllers[i].name = d.controllers[j].name => i = j
    /\ \A i, j \in 1..Len(d.lines) : d.lines[i].name = d.lines[j].name => i = j
    /\ \A i \in 1..Len(d.lines) :
          d.lines[i].device # None =>
              \E j \in 1..Len(d.controllers) :
                  d.controllers[j].name = d.lines[i].device.mfc

\* C22: a Config that was constructed is well-formed, and a document that is
\* not well-formed is rejected with a ValueError when it is loaded.
C22_ConfigWellFormed ==
    config # None =>
        /\ config.ok => (config.value = doc /\ WellFormed(config.value))
        /\ ~WellFormed(doc) => (~config.ok /\ config.exc = "ValueError")

\* A document with distinct names whose second line names a controller that
\* the document does not have is rejected.
C22_Witness ==
    /\ config # None
    /\ Len(doc.lines) = 2 /\ doc.lines[1].name # doc.lines[2].name
    /\ Len(doc.controllers) = 1
    /\ doc.lines[1].device = [mfc |-> doc.controllers[1].name]
    /\ doc.lines[2].device # None /\ doc.lines[2].device # doc.lines[1].device
    /\ ~config.ok /\ config.msg = "not found in controllers"

\* The number of header lines in a data file.
Headers(file_lines) == Cardinality({i \in 1..Len(file_lines) : file_lines[i] = "header"})

\* C30: after any sequence of log_data calls at any times, every data file
\* that was written holds exactly one header line, which is its first line,
\* and whenever data was logged there is a current file and it is on disk.
C30_OneHeaderFirst ==
    /\ \A file \in DOMAIN files :
          /\ Len(files[file]) > 0
          /\ files[file][1] = "header"
          /\ Headers(files[file]) = 1
    /\ logged > 0 => (current_file # None /\ current_file \in DOMAIN files)

=============================================================================
